---- MODULE Spec2Model ----
(***************************************************************************)
(* Model of the Q-Bloch quantum circuit simulator:                         *)
(*   - Complex            (complex arithmetic)                             *)
(*   - QuantumState       (amplitude vector, gates, partial trace)         *)
(*   - QuantumGates       (gate library)                                   *)
(*   - QuantumVisualizer  (circuit editing, full run, step execution)      *)
(*                                                                         *)
(* Numbers.  The program computes in float64.  Every number it can reach   *)
(* from the library gates lies in Z[sqrt 2]/2^k, so a real number is       *)
(* modelled exactly as the pair <<p, q>> standing for                      *)
(* (p + q*sqrt(2)) / Scale.  Two reals are equal iff their pairs are.      *)
(* Arrays are functions over 0..length-1, as in the source.                *)
(***************************************************************************)
EXTENDS Integers, Sequences, FiniteSets, TLC

\* ------------------------------------------------------------------ bounds
\* largest number of placements the model puts in a circuit
MaxGates == 2
\* largest step the model lets a placement get
MaxStep == 2
\* largest sphere index the model clicks while it builds circuits to execute
MaxSelect == 1
\* largest qubit count of a QuantumState built directly
MaxTestQubits == 2
\* number of transforms applied to one directly built QuantumState
MaxOps == 1
\* length of a sequence of transforms applied to an all-zero state
MaxSeq == 2

\* fixed-point denominator: enough binary digits for MaxGates/MaxOps/MaxSeq
\* factors of 1/sqrt(2) and for one product of two amplitudes
Scale ==
    2 ^ ((CHOOSE m \in {MaxGates, MaxOps, MaxSeq} :
             \A x \in {MaxGates, MaxOps, MaxSeq} : x <= m) + 1)

\* ------------------------------------------------------- real numbers
RealOf(k) == <<k * Scale, 0>>
RAdd(x, y) == <<x[1] + y[1], x[2] + y[2]>>
RSub(x, y) == <<x[1] - y[1], x[2] - y[2]>>
RNeg(x) == <<0 - x[1], 0 - x[2]>>
RMul(x, y) == <<(x[1] * y[1] + 2 * x[2] * y[2]) \div Scale,
                (x[1] * y[2] + x[2] * y[1]) \div Scale>>
\* Math.sqrt(2) and 1/Math.sqrt(2)
InvSqrt2 == <<0, Scale \div 2>>

\* ------------------------------------------------------------ Complex
Complex(re, im) == [real |-> re, imaginary |-> im]
\* new Complex(k, m) with integer literals
C(k, m) == Complex(RealOf(k), RealOf(m))
add(a, b) == Complex(RAdd(a.real, b.real), RAdd(a.imaginary, b.imaginary))
subtract(a, b) == Complex(RSub(a.real, b.real), RSub(a.imaginary, b.imaginary))
multiply(a, b) ==
    Complex(RSub(RMul(a.real, b.real), RMul(a.imaginary, b.imaginary)),
            RAdd(RMul(a.real, b.imaginary), RMul(a.imaginary, b.real)))
conjugate(a) == Complex(a.real, RNeg(a.imaginary))

\* ------------------------------------------------------- QuantumGates
\* a gate is a 2x2 matrix indexed [row][column] from 0
Matrix(m00, m01, m10, m11) ==
    [r \in 0..1 |-> [c \in 0..1 |->
        IF r = 0 THEN (IF c = 0 THEN m00 ELSE m01)
                 ELSE (IF c = 0 THEN m10 ELSE m11)]]
GateX == Matrix(C(0, 0), C(1, 0), C(1, 0), C(0, 0))
GateY == Matrix(C(0, 0), C(0, -1), C(0, 1), C(0, 0))
GateZ == Matrix(C(1, 0), C(0, 0), C(0, 0), C(-1, 0))
\* variant: the last entry positive
GateHAllPlus == Matrix(Complex(InvSqrt2, RealOf(0)), Complex(InvSqrt2, RealOf(0)),
                       Complex(InvSqrt2, RealOf(0)), Complex(InvSqrt2, RealOf(0)))
GateH == Matrix(Complex(InvSqrt2, RealOf(0)), Complex(InvSqrt2, RealOf(0)),
                Complex(InvSqrt2, RealOf(0)), Complex(RNeg(InvSqrt2), RealOf(0)))
GateS == Matrix(C(1, 0), C(0, 0), C(0, 0), C(0, 1))
\* variant: the phase entry without its factor 1/sqrt(2)
GateTUnscaled == Matrix(C(1, 0), C(0, 0), C(0, 0), C(1, 1))
GateT == Matrix(C(1, 0), C(0, 0), C(0, 0), Complex(InvSqrt2, InvSqrt2))
QuantumGates == [X |-> GateX, Y |-> GateY, Z |-> GateZ,
                 H |-> GateH, S |-> GateS, T |-> GateT]
GateNames == {"X", "Y", "Z", "H", "S", "T"}

\* ---------------------------------------------------- 32-bit integer ops
\* JavaScript masks a shift count to its low five bits
ShiftCount(k) == k % 32
\* (i >> k) & 1 for 0 <= i < 2^31
BitAt(i, k) == IF ShiftCount(k) = 31 THEN 0 ELSE (i \div (2 ^ ShiftCount(k))) % 2
\* i & ~(1 << k) for 0 <= i < 2^31
ClearBit(i, k) ==
    IF ShiftCount(k) = 31 THEN i ELSE i - BitAt(i, k) * (2 ^ ShiftCount(k))
\* i | (b << k) for an i whose bit k is clear; 1 << 31 is the int32 minimum
OrBit(i, b, k) ==
    IF b = 0 THEN i
    ELSE IF ShiftCount(k) = 31 THEN i - 2147483647 - 1
    ELSE i + 2 ^ ShiftCount(k)
\* i ^ (1 << k) for 0 <= i < 2^31
XorBit(i, k) ==
    IF ShiftCount(k) = 31 THEN i - 2147483647 - 1
    ELSE IF BitAt(i, k) = 1 THEN i - 2 ^ ShiftCount(k) ELSE i + 2 ^ ShiftCount(k)

\* ------------------------------------------------------- QuantumState
Length(arr) == Cardinality(DOMAIN arr)
\* variant: every entry filled with (1, 0)
ZeroAmplitudesFilled(numQubits) ==
    [i \in 0..(2 ^ numQubits - 1) |-> C(1, 0)]
\* the |00...0> amplitude vector built when no initial state is given
ZeroAmplitudes(numQubits) ==
    [i \in 0..(2 ^ numQubits - 1) |-> C(IF i = 0 THEN 1 ELSE 0, 0)]
\* constructor; initialState is <<>> when the argument is omitted and
\* <<array>> when it is given
QuantumState(numQubits, initialState) ==
    [numQubits |-> numQubits,
     amplitudes |-> IF Len(initialState) > 0 THEN initialState[1]
                    ELSE ZeroAmplitudes(numQubits)]

\* variant: the second factor is not conjugated
DensityEntryPlain(qs, i, j) == multiply(qs.amplitudes[i], qs.amplitudes[j])
\* rho[i][j] of getDensityMatrix
DensityEntry(qs, i, j) == multiply(qs.amplitudes[i], conjugate(qs.amplitudes[j]))
getDensityMatrix(qs) ==
    [i \in DOMAIN qs.amplitudes |-> [j \in DOMAIN qs.amplitudes |->
        DensityEntry(qs, i, j)]]

\* outcome of a method call: threw is "none" or the kind of error thrown
Returned(v) == [threw |-> "none", value |-> v]
Threw(kind) == [threw |-> kind, value |-> <<>>]

ZeroMatrix == Matrix(C(0, 0), C(0, 0), C(0, 0), C(0, 0))

\* the double loop of getReducedDensityMatrix.  For an index i the test
\* iOther === jOther holds at no j but i with the qubit's bit cleared and i
\* with it set, met in this order by the inner loop; k enumerates the pairs
\* (i, bit) and the loop body runs for those of them that name an index j of
\* the array.  rho[i][j] is computed where the loop reads it.
RECURSIVE ReducedLoop(_, _, _, _, _)
ReducedLoop(qs, size, shift, k, reducedRho) ==
    IF k >= 2 * size THEN reducedRho
    ELSE LET i == k \div 2
             iBit == BitAt(i, shift)
             iOther == ClearBit(i, shift)
             j == OrBit(iOther, k % 2, shift)
         IN  ReducedLoop(qs, size, shift, k + 1,
                 IF j >= 0 /\ j < size
                 THEN [reducedRho EXCEPT ![iBit][BitAt(j, shift)] =
                          add(@, DensityEntry(qs, i, j))]
                 ELSE reducedRho)

getReducedDensityMatrix(qs, qubitIndex) ==
    IF qubitIndex >= qs.numQubits
    THEN Threw("Error")
    ELSE Returned(ReducedLoop(qs, Length(qs.amplitudes), qs.numQubits - 1 - qubitIndex,
                              0, ZeroMatrix))

\* variant: z taken as rho[1][1] - rho[0][0]
BlochFromRhoFlipped(rho) ==
    LET sigmaX == add(rho[0][1], rho[1][0])
        sigmaY == multiply(subtract(rho[0][1], rho[1][0]), C(0, -1))
        sigmaZ == subtract(rho[1][1], rho[0][0])
    IN  [x |-> sigmaX.real, y |-> sigmaY.real, z |-> sigmaZ.real]
\* the body of getBlochVector once the reduced density matrix is known
BlochFromRho(rho) ==
    LET sigmaX == add(rho[0][1], rho[1][0])
        sigmaY == multiply(subtract(rho[0][1], rho[1][0]), C(0, -1))
        sigmaZ == subtract(rho[0][0], rho[1][1])
    IN  [x |-> sigmaX.real, y |-> sigmaY.real, z |-> sigmaZ.real]

getBlochVector(qs, qubitIndex) ==
    LET r == getReducedDensityMatrix(qs, qubitIndex)
    IN  IF r.threw # "none" THEN r ELSE Returned(BlochFromRho(r.value))

\* the two nested loops of applyGate, k enumerating (state, newQubitBit);
\* size is this.amplitudes.length and shift is numQubits - 1 - qubitIndex.
\* Reading newAmplitudes[newState] outside the array yields undefined and
\* the call of .add on it throws a TypeError
RECURSIVE ApplyGateLoop(_, _, _, _, _, _)
ApplyGateLoop(qs, gate, size, shift, k, newAmplitudes) ==
    IF k >= 2 * size THEN Returned(newAmplitudes)
    ELSE LET state == k \div 2
             newQubitBit == k % 2
             qubitBit == BitAt(state, shift)
             otherBits == ClearBit(state, shift)
             newState == OrBit(otherBits, newQubitBit, shift)
             gateElement == gate[newQubitBit][qubitBit]
         IN  IF newState < 0 \/ newState >= size THEN Threw("TypeError")
             ELSE ApplyGateLoop(qs, gate, size, shift, k + 1,
                      [newAmplitudes EXCEPT ![newState] =
                          add(@, multiply(qs.amplitudes[state], gateElement))])

\* variant: qubit 0 is the lowest bit of an index
applyGateLowFirst(qs, gate, qubitIndex) ==
    LET r == ApplyGateLoop(qs, gate, Length(qs.amplitudes), qubitIndex, 0,
                           [i \in DOMAIN qs.amplitudes |-> C(0, 0)])
    IN  IF r.threw # "none" THEN r
        ELSE Returned(QuantumState(qs.numQubits, <<r.value>>))
\* variant: the gate always acts on the last qubit
applyGateLastQubit(qs, gate, qubitIndex) ==
    LET r == ApplyGateLoop(qs, gate, Length(qs.amplitudes), 0, 0,
                           [i \in DOMAIN qs.amplitudes |-> C(0, 0)])
    IN  IF r.threw # "none" THEN r
        ELSE Returned(QuantumState(qs.numQubits, <<r.value>>))
applyGate(qs, gate, qubitIndex) ==
    LET r == ApplyGateLoop(qs, gate, Length(qs.amplitudes),
                           qs.numQubits - 1 - qubitIndex, 0,
                           [i \in DOMAIN qs.amplitudes |-> C(0, 0)])
    IN  IF r.threw # "none" THEN r
        ELSE Returned(QuantumState(qs.numQubits, <<r.value>>))

\* the loop of applyCNOT: every index whose control bit is 1 swaps its
\* entry of newAmplitudes with the entry of its partner
RECURSIVE CNOTLoop(_, _, _, _, _)
CNOTLoop(qs, controlQubit, targetQubit, state, newAmplitudes) ==
    LET controlBit == BitAt(state, qs.numQubits - 1 - controlQubit)
        newState == XorBit(state, qs.numQubits - 1 - targetQubit)
        temp == newAmplitudes[state]
    IN  IF state >= Length(qs.amplitudes) THEN newAmplitudes
        ELSE CNOTLoop(qs, controlQubit, targetQubit, state + 1,
                 IF controlBit = 1
                 THEN [newAmplitudes EXCEPT ![state] = newAmplitudes[newState],
                                            ![newState] = temp]
                 ELSE newAmplitudes)

applyCNOT(qs, controlQubit, targetQubit) ==
    QuantumState(qs.numQubits,
                 <<CNOTLoop(qs, controlQubit, targetQubit, 0, qs.amplitudes)>>)

\* ------------------------------------------------- circuit and executor
\* a placement (QuantumGate) keeps the fields the program reads
Placement(qubit, step, symbol) == [qubit |-> qubit, step |-> step, symbol |-> symbol]

\* symbols the switch of the executor has a case for
RecognizedSymbols == {"Px", "Py", "Pz", "H", "S"}
\* toolbox buttons the model presses: two recognized gates and the custom
\* gate "+", which the executor has no case for
ToolboxSymbols == {"H", "+"}
\* the qubit-count buttons the model presses, of the program's 2, 3, 4, 5
QubitButtons == {2, 3}
\* the indices a displayed list of Bloch spheres can have for these counts
SphereIndices == 0..2
\* the rejection threshold of handleGateSelect
GateLimit == 20

\* Math.max(...xs, floor)
MaxOf(xs, floor) == CHOOSE m \in xs \cup {floor} : \A x \in xs \cup {floor} : x <= m
StepsOf(gs) == {gs[i].step : i \in DOMAIN gs}
\* Math.max(...gates.map(g => g.step), 0) + 1
MaxSteps(gs) == MaxOf(StepsOf(gs), 0) + 1

\* [...gateArray].sort((a, b) => a.step - b.step): a stable sort
RECURSIVE InsertByStep(_, _)
InsertByStep(sorted, g) ==
    IF sorted = <<>> THEN <<g>>
    ELSE IF sorted[Len(sorted)].step <= g.step THEN Append(sorted, g)
    ELSE Append(InsertByStep(SubSeq(sorted, 1, Len(sorted) - 1), g),
                sorted[Len(sorted)])
RECURSIVE SortPrefix(_, _)
SortPrefix(gs, k) ==
    IF k = 0 THEN <<>> ELSE InsertByStep(SortPrefix(gs, k - 1), gs[k])
\* variant: the array is left in insertion order
SortByStepOmitted(gs) == gs
SortByStep(gs) == SortPrefix(gs, Len(gs))

\* variant: a switch whose default case throws
ApplyPlacementStrict(state, gate) ==
    CASE gate.symbol = "Px" -> applyGate(state, QuantumGates.X, gate.qubit)
      [] gate.symbol = "Py" -> applyGate(state, QuantumGates.Y, gate.qubit)
      [] gate.symbol = "Pz" -> applyGate(state, QuantumGates.Z, gate.qubit)
      [] gate.symbol = "H" -> applyGate(state, QuantumGates.H, gate.qubit)
      [] gate.symbol = "S" -> applyGate(state, QuantumGates.S, gate.qubit)
      [] OTHER -> Threw("Error")
\* the switch on gate.symbol: the new running state, or the error thrown
ApplyPlacement(state, gate) ==
    CASE gate.symbol = "Px" -> applyGate(state, QuantumGates.X, gate.qubit)
      [] gate.symbol = "Py" -> applyGate(state, QuantumGates.Y, gate.qubit)
      [] gate.symbol = "Pz" -> applyGate(state, QuantumGates.Z, gate.qubit)
      [] gate.symbol = "H" -> applyGate(state, QuantumGates.H, gate.qubit)
      [] gate.symbol = "S" -> applyGate(state, QuantumGates.S, gate.qubit)
      [] OTHER -> Returned(state)

\* variant: the step before the cutoff is not executed any more
StepBreakEarly(gate, step) == gate.step + 1 >= step
\* variant: the cutoff step itself is still executed
StepBreakAfter(gate, step) == gate.step > step
\* the cutoff test of updateSteppedState
StepBreak(gate, step) == gate.step >= step

\* for (const gate of sortedGates) of updateSteppedState; applied lists the
\* placements whose applyGate call returned
RECURSIVE StepLoop(_, _, _, _, _)
StepLoop(state, sortedGates, k, step, applied) ==
    IF k > Len(sortedGates) \/ StepBreak(sortedGates[k], step)
    THEN [threw |-> "none", state |-> state, applied |-> applied]
    ELSE LET r == ApplyPlacement(state, sortedGates[k])
         IN  IF r.threw # "none"
             THEN [threw |-> r.threw, state |-> state, applied |-> applied]
             ELSE StepLoop(r.value, sortedGates, k + 1, step,
                      IF sortedGates[k].symbol \in RecognizedSymbols
                      THEN Append(applied, sortedGates[k]) ELSE applied)

\* for (const gate of sortedGates) of handleCircuitRun
RECURSIVE RunLoop(_, _, _, _)
RunLoop(state, sortedGates, k, applied) ==
    IF k > Len(sortedGates)
    THEN [threw |-> "none", state |-> state, applied |-> applied]
    ELSE LET r == ApplyPlacement(state, sortedGates[k])
         IN  IF r.threw # "none"
             THEN [threw |-> r.threw, state |-> state, applied |-> applied]
             ELSE RunLoop(r.value, sortedGates, k + 1,
                      IF sortedGates[k].symbol \in RecognizedSymbols
                      THEN Append(applied, sortedGates[k]) ELSE applied)

\* Array.from({ length: n }, (_, i) => state.getReducedDensityMatrix(i)),
\* a sequence indexed from 1
DensityList(state, n) == [i \in 1..n |-> getReducedDensityMatrix(state, i - 1)]
\* Array.from({ length: n }, (_, i) => state.getBlochVector(i)); each call
\* computes the reduced density matrix of DensityList again, so the list is
\* taken from that one
BlochList(state, n, densityList) ==
    [i \in 1..n |-> IF densityList[i].threw # "none" THEN densityList[i]
                    ELSE Returned(BlochFromRho(densityList[i].value))]
ListValues(list) == [i \in DOMAIN list |-> list[i].value]
\* Array.from({ length: n }, () => ({ x: 0, y: 0, z: 1 }))
ZeroBloch(n) == [i \in 1..n |-> [x |-> RealOf(0), y |-> RealOf(0), z |-> RealOf(1)]]

\* what one execution sets: the body of the try block, as the values given
\* to the three setters, or the error that reached the catch before any
\* setter was called (the queries after the loop ask for qubits below the
\* qubit count of the state and return).  Each intermediate value is bound
\* by a singleton set so that it is computed once.
Derived(loop, n) ==
    IF loop.threw # "none"
    THEN [threw |-> loop.threw, applied |-> loop.applied]
    ELSE CHOOSE d \in
           {[threw |-> "none", applied |-> loop.applied, state |-> loop.state,
             blochVectors |-> ListValues(BlochList(loop.state, n, densityList)),
             densityMatrices |-> ListValues(densityList)] :
               densityList \in {DensityList(loop.state, n)}} : TRUE

\* updateSteppedState(step, gateArray) of a render whose numQubits is n
StepExecution(n, step, gateArray) ==
    CHOOSE d \in
      {Derived(loop, n) :
         loop \in {StepLoop(QuantumState(n, <<>>), SortByStep(gateArray), 1, step, <<>>)}} :
      TRUE
\* handleCircuitRun of a render whose numQubits is n
RunExecution(n, gateArray) ==
    CHOOSE d \in
      {Derived(loop, n) :
         loop \in {RunLoop(QuantumState(n, <<>>), SortByStep(gateArray), 1, <<>>)}} :
      TRUE

\* ---------------------------------------------------------------- state
VARIABLES
    \* QuantumVisualizer (useState)
    numQubits, selectedQubit, gates,
    quantumState, blochVectors, densityMatrices,
    isStepMode, currentStep, isPlaying,
    steppedQuantumState, steppedBlochVectors, steppedDensityMatrices,
    \* the numQubits of the updateSteppedState that the memoized
    \* handleGateSelect closes over (its dependencies omit it)
    selectNumQubits,
    \* the most recent execution: which executor, its inputs, the placements
    \* it applied and the error it caught
    lastExec,
    \* a QuantumState used directly, the number of transforms applied to it
    \* and the most recent call with its result
    psi, ops, call,
    \* arrays as objects: heap maps the identity of each live array to its
    \* contents; self is a QuantumState whose amplitudes field holds an
    \* identity, made the instance its last transform returned, held the
    \* array its user holds (0: none), writes the number of writes the user
    \* made into arrays, built the contents self was constructed with
    heap, self, held, made, writes, built

uiVars == <<numQubits, selectedQubit, gates, quantumState, blochVectors,
            densityMatrices, isStepMode, currentStep, isPlaying,
            steppedQuantumState, steppedBlochVectors, steppedDensityMatrices,
            selectNumQubits, lastExec>>
qsVars == <<psi, ops, call>>
memVars == <<heap, self, held, made, writes, built>>
vars == <<numQubits, selectedQubit, gates, quantumState, blochVectors,
          densityMatrices, isStepMode, currentStep, isPlaying,
          steppedQuantumState, steppedBlochVectors, steppedDensityMatrices,
          selectNumQubits, lastExec, psi, ops, call, memVars>>

ExecRecord(kind, n, step, gateArray, r) ==
    [kind |-> kind, numQubits |-> n, step |-> step, gateArray |-> gateArray,
     applied |-> r.applied, threw |-> r.threw]

\* the state after the first render and its effects: the initial values of
\* useState, then the effect that calls updateSteppedState(0, [])
UIInit ==
    /\ numQubits = 3
    /\ selectedQubit = 0
    /\ gates = <<>>
    /\ quantumState = QuantumState(3, <<>>)
    /\ blochVectors = ZeroBloch(3)
    /\ densityMatrices = <<>>
    /\ isStepMode = FALSE
    /\ currentStep = 0
    /\ isPlaying = FALSE
    /\ LET r == StepExecution(3, 0, <<>>)
       IN  /\ steppedQuantumState = r.state
           /\ steppedBlochVectors = r.blochVectors
           /\ steppedDensityMatrices = r.densityMatrices
           /\ lastExec = ExecRecord("step", 3, 0, <<>>, r)
    /\ selectNumQubits = 3

\* the record of a constructor call: given is <<>> or <<initialState>>
NewCall(n, initialState) ==
    [op |-> "new", numQubits |-> n, given |-> initialState, arg |-> <<>>,
     receiver |-> QuantumState(n, initialState),
     result |-> Returned(QuantumState(n, initialState))]
QSIdle ==
    /\ psi = QuantumState(1, <<>>)
    /\ ops = 0
    /\ call = NewCall(1, <<>>)

\* no instance under observation yet: one array, owned by a one-qubit state
NoObject == [numQubits |-> 0, amplitudes |-> 0]
MemIdle ==
    /\ heap = (1 :> ZeroAmplitudes(1))
    /\ self = [numQubits |-> 1, amplitudes |-> 1]
    /\ held = 0
    /\ made = NoObject
    /\ writes = 0
    /\ built = ZeroAmplitudes(1)

Init == UIInit /\ QSIdle /\ MemIdle

\* -------------------------------------------------------------- handlers
\* the three setters at the end of updateSteppedState, skipped by a throw
SetStepped(r) ==
    IF r.threw = "none"
    THEN /\ steppedQuantumState' = r.state
         /\ steppedBlochVectors' = r.blochVectors
         /\ steppedDensityMatrices' = r.densityMatrices
    ELSE UNCHANGED <<steppedQuantumState, steppedBlochVectors,
                     steppedDensityMatrices>>

\* handleGateSelect is recreated only in a render in which selectedQubit or
\* gates.length differs from the previous render
RefreshSelect(newSelected, newGates, newNumQubits) ==
    selectNumQubits' = IF newSelected # selectedQubit \/ Len(newGates) # Len(gates)
                       THEN newNumQubits ELSE selectNumQubits

\* variant: the effect never calls setIsPlaying(false)
PlayingOn(p, step, gs) == p
\* the auto-play effect: a playing run that has reached the end stops
Playing(p, step, gs) == p /\ step < MaxSteps(gs)

\* variant: the steps of all placements, whatever their qubit
StepsOnAny(gs, qubit) == {gs[i].step : i \in DOMAIN gs}
\* gates.filter(g => g.qubit === selectedQubit).map(g => g.step)
StepsOn(gs, qubit) == {gs[i].step : i \in {j \in DOMAIN gs : gs[j].qubit = qubit}}
\* variant: the number of placements on the qubit
NextStepCount(gs, qubit) == Cardinality({j \in DOMAIN gs : gs[j].qubit = qubit})
\* the step the new placement gets in handleGateSelect
NextStep(gs, qubit) == MaxOf(StepsOn(gs, qubit), -1) + 1

\* variant: the comparison of QuantumValidation, gates.length > 20
TooComplexAbove(gs) == Len(gs) > GateLimit
\* gates.length >= 20
TooComplex(gs) == Len(gs) >= GateLimit

\* the handler, on circuits of fewer than most placements and for a new
\* placement with a step of at most deepest
handleGateSelectUpTo(symbol, most, deepest) ==
    /\ Len(gates) < most
    /\ NextStep(gates, selectedQubit) <= deepest
    /\ IF TooComplex(gates)
       THEN UNCHANGED vars
       ELSE \E newGate \in {Placement(selectedQubit, NextStep(gates, selectedQubit), symbol)} :
            \E r \in {StepExecution(selectNumQubits, 0, Append(gates, newGate))} :
                /\ gates' = Append(gates, newGate)
                /\ currentStep' = 0
                /\ isPlaying' = FALSE
                /\ SetStepped(r)
                /\ lastExec' = ExecRecord("step", selectNumQubits, 0,
                                          Append(gates, newGate), r)
                /\ RefreshSelect(selectedQubit, Append(gates, newGate), numQubits)
                /\ UNCHANGED <<numQubits, selectedQubit, quantumState, blochVectors,
                               densityMatrices, isStepMode, psi, ops, call, memVars>>

\* gates.filter(g => !(g.qubit === qubit && g.step === step))
\* variant: the filter compares the qubit only
RECURSIVE WithoutQubit(_, _, _)
WithoutQubit(gs, qubit, step) ==
    IF gs = <<>> THEN <<>>
    ELSE IF gs[1].qubit = qubit
         THEN WithoutQubit(Tail(gs), qubit, step)
         ELSE <<gs[1]>> \o WithoutQubit(Tail(gs), qubit, step)

RECURSIVE Without(_, _, _)
Without(gs, qubit, step) ==
    IF gs = <<>> THEN <<>>
    ELSE IF gs[1].qubit = qubit /\ gs[1].step = step
         THEN Without(Tail(gs), qubit, step)
         ELSE <<gs[1]>> \o Without(Tail(gs), qubit, step)

\* variant: the handler does not call setIsPlaying(false)
handleGateRemoveKeepPlaying(g) ==
    /\ ~isStepMode
    /\ g.qubit < numQubits
    /\ \E newGates \in {Without(gates, g.qubit, g.step)} :
           /\ gates' = newGates
           /\ currentStep' = 0
           /\ RefreshSelect(selectedQubit, newGates, numQubits)
           /\ UNCHANGED <<numQubits, selectedQubit, quantumState, blochVectors,
                          densityMatrices, isStepMode, isPlaying, psi, ops, call, memVars>>
           /\ \E r \in {StepExecution(numQubits, 0, newGates)} :
                  /\ SetStepped(r)
                  /\ lastExec' = ExecRecord("step", numQubits, 0, newGates, r)

\* a click on the badge of a displayed gate (full-run mode, grid rows
\* 0..numQubits-1)
handleGateRemove(g) ==
    /\ ~isStepMode
    /\ g.qubit < numQubits
    /\ \E newGates \in {Without(gates, g.qubit, g.step)} :
           /\ gates' = newGates
           /\ currentStep' = 0
           /\ isPlaying' = FALSE
           /\ RefreshSelect(selectedQubit, newGates, numQubits)
           /\ UNCHANGED <<numQubits, selectedQubit, quantumState, blochVectors,
                          densityMatrices, isStepMode, psi, ops, call, memVars>>
           /\ \E r \in {StepExecution(numQubits, 0, newGates)} :
                  /\ SetStepped(r)
                  /\ lastExec' = ExecRecord("step", numQubits, 0, newGates, r)

handleCircuitRun ==
    /\ ~isStepMode
    /\ UNCHANGED <<numQubits, selectedQubit, gates, isStepMode, currentStep,
                   isPlaying, steppedQuantumState, steppedBlochVectors,
                   steppedDensityMatrices, selectNumQubits, psi, ops, call, memVars>>
    /\ \E r \in {RunExecution(numQubits, gates)} :
           /\ IF r.threw = "none"
              THEN /\ quantumState' = r.state
                   /\ blochVectors' = r.blochVectors
                   /\ densityMatrices' = r.densityMatrices
              ELSE UNCHANGED <<quantumState, blochVectors, densityMatrices>>
           /\ lastExec' = ExecRecord("run", numQubits, -1, gates, r)

handleGateSelectWithin(symbol, most) == handleGateSelectUpTo(symbol, most, MaxStep)
handleGateSelect(symbol) == handleGateSelectWithin(symbol, MaxGates)

handleCircuitClear ==
    /\ ~isStepMode
    /\ gates' = <<>>
    /\ quantumState' = QuantumState(numQubits, <<>>)
    /\ blochVectors' = ZeroBloch(numQubits)
    /\ densityMatrices' = <<>>
    /\ currentStep' = 0
    /\ isPlaying' = FALSE
    /\ steppedQuantumState' = QuantumState(numQubits, <<>>)
    /\ steppedBlochVectors' = ZeroBloch(numQubits)
    /\ steppedDensityMatrices' = <<>>
    /\ RefreshSelect(selectedQubit, <<>>, numQubits)
    /\ UNCHANGED <<numQubits, selectedQubit, isStepMode, lastExec, psi, ops, call, memVars>>

\* the frame of the step controls: they touch currentStep, isPlaying and the
\* stepped views only
StepFrame ==
    UNCHANGED <<numQubits, selectedQubit, gates, quantumState, blochVectors,
                densityMatrices, isStepMode, selectNumQubits, psi, ops, call, memVars>>

\* setCurrentStep(step); updateSteppedState(step, gates), then the
\* auto-play effect
StepTo(step, playing) ==
    \E r \in {StepExecution(numQubits, step, gates)} :
        /\ currentStep' = step
        /\ isPlaying' = Playing(playing, step, gates)
        /\ SetStepped(r)
        /\ lastExec' = ExecRecord("step", numQubits, step, gates, r)
        /\ StepFrame

\* the play/pause button is disabled once currentStep >= maxSteps
handleStepPlay ==
    /\ isStepMode /\ ~isPlaying /\ currentStep < MaxSteps(gates)
    /\ isPlaying' = TRUE
    /\ UNCHANGED <<currentStep, steppedQuantumState, steppedBlochVectors,
                   steppedDensityMatrices, lastExec>>
    /\ StepFrame

handleStepPause ==
    /\ isStepMode /\ isPlaying /\ currentStep < MaxSteps(gates)
    /\ isPlaying' = FALSE
    /\ UNCHANGED <<currentStep, steppedQuantumState, steppedBlochVectors,
                   steppedDensityMatrices, lastExec>>
    /\ StepFrame

\* the stop button is disabled when nothing plays and currentStep is 0
handleStepStop ==
    /\ isStepMode /\ (isPlaying \/ currentStep # 0)
    /\ StepTo(0, FALSE)

\* the slider offers the values 0..maxSteps
handleStepTo(step) ==
    /\ isStepMode /\ step \in 0..MaxSteps(gates) /\ step # currentStep
    /\ StepTo(step, isPlaying)

\* variant: no comparison of currentStep with maxSteps
StepForwardUnguarded == StepTo(currentStep + 1, isPlaying)
\* the body of handleStepForward, shared by the button and the timer
StepForward ==
    IF currentStep < MaxSteps(gates)
    THEN StepTo(currentStep + 1, isPlaying)
    ELSE UNCHANGED vars

handleStepForward ==
    /\ isStepMode
    /\ StepForward

handleStepBack ==
    /\ isStepMode
    /\ IF currentStep > 0
       THEN StepTo(currentStep - 1, isPlaying)
       ELSE UNCHANGED vars

\* the reset button is disabled at currentStep 0
handleStepReset ==
    /\ isStepMode /\ currentStep # 0
    /\ StepTo(0, FALSE)

\* the timer of the auto-play effect is pending exactly while isPlaying holds
\* and currentStep < maxSteps; its expiry calls handleStepForward
AutoPlayTimer ==
    /\ isPlaying /\ currentStep < MaxSteps(gates)
    /\ StepForward

\* variant: the button does not call setSelectedQubit(0)
SetNumQubitsKeepSelected(n) ==
    /\ numQubits' = n
    /\ quantumState' = QuantumState(n, <<>>)
    /\ blochVectors' = ZeroBloch(n)
    /\ gates' = <<>>
    /\ currentStep' = 0
    /\ isPlaying' = FALSE
    /\ IF n # numQubits
       THEN \E r \in {StepExecution(n, 0, <<>>)} :
                /\ steppedQuantumState' = r.state
                /\ steppedBlochVectors' = r.blochVectors
                /\ steppedDensityMatrices' = r.densityMatrices
                /\ lastExec' = ExecRecord("step", n, 0, <<>>, r)
       ELSE /\ steppedQuantumState' = QuantumState(n, <<>>)
            /\ steppedBlochVectors' = ZeroBloch(n)
            /\ UNCHANGED <<steppedDensityMatrices, lastExec>>
    /\ RefreshSelect(selectedQubit, <<>>, n)
    /\ UNCHANGED <<selectedQubit, densityMatrices, isStepMode, psi, ops, call, memVars>>

\* a qubit-count button, then (when the count changed) the effect that calls
\* updateSteppedState(currentStep, gates) of the new render
SetNumQubits(n) ==
    /\ numQubits' = n
    /\ quantumState' = QuantumState(n, <<>>)
    /\ blochVectors' = ZeroBloch(n)
    /\ gates' = <<>>
    /\ selectedQubit' = 0
    /\ currentStep' = 0
    /\ isPlaying' = FALSE
    /\ IF n # numQubits
       THEN \E r \in {StepExecution(n, 0, <<>>)} :
                /\ steppedQuantumState' = r.state
                /\ steppedBlochVectors' = r.blochVectors
                /\ steppedDensityMatrices' = r.densityMatrices
                /\ lastExec' = ExecRecord("step", n, 0, <<>>, r)
       ELSE /\ steppedQuantumState' = QuantumState(n, <<>>)
            /\ steppedBlochVectors' = ZeroBloch(n)
            /\ UNCHANGED <<steppedDensityMatrices, lastExec>>
    /\ RefreshSelect(0, <<>>, n)
    /\ UNCHANGED <<densityMatrices, isStepMode, psi, ops, call, memVars>>

\* a click on one of the displayed Bloch spheres
SetSelectedQubit(index) ==
    /\ index + 1 \in DOMAIN (IF isStepMode THEN steppedBlochVectors ELSE blochVectors)
    /\ selectedQubit' = index
    /\ RefreshSelect(index, gates, numQubits)
    /\ UNCHANGED <<numQubits, gates, quantumState, blochVectors, densityMatrices,
                   isStepMode, currentStep, isPlaying, steppedQuantumState,
                   steppedBlochVectors, steppedDensityMatrices, lastExec,
                   psi, ops, call, memVars>>

SetIsStepMode(b) ==
    /\ isStepMode' = b
    /\ UNCHANGED <<numQubits, selectedQubit, gates, quantumState, blochVectors,
                   densityMatrices, currentStep, isPlaying, steppedQuantumState,
                   steppedBlochVectors, steppedDensityMatrices, selectNumQubits,
                   lastExec, psi, ops, call, memVars>>

Next ==
    \/ \E symbol \in ToolboxSymbols : handleGateSelect(symbol)
    \/ \E i \in DOMAIN gates : handleGateRemove(gates[i])
    \/ handleCircuitRun
    \/ handleCircuitClear
    \/ handleStepPlay
    \/ handleStepPause
    \/ handleStepStop
    \/ \E step \in 0..(MaxStep + 1) : handleStepTo(step)
    \/ handleStepForward
    \/ handleStepBack
    \/ handleStepReset
    \/ AutoPlayTimer
    \/ \E n \in QubitButtons : SetNumQubits(n)
    \/ \E index \in SphereIndices : SetSelectedQubit(index)
    \/ \E b \in BOOLEAN : SetIsStepMode(b)

Spec == Init /\ [][Next]_vars

\* every event of the visualizer except the run button, with one toolbox
\* gate
ViewSymbols == {"H"}
ViewNext ==
    \/ \E symbol \in ViewSymbols : handleGateSelect(symbol)
    \/ \E i \in DOMAIN gates : handleGateRemove(gates[i])
    \/ handleCircuitClear
    \/ handleStepPlay
    \/ handleStepPause
    \/ handleStepStop
    \/ \E step \in 0..(MaxStep + 1) : handleStepTo(step)
    \/ handleStepForward
    \/ handleStepBack
    \/ handleStepReset
    \/ AutoPlayTimer
    \/ \E n \in QubitButtons : SetNumQubits(n)
    \/ \E index \in SphereIndices : SetSelectedQubit(index)
    \/ \E b \in BOOLEAN : SetIsStepMode(b)
SpecView == Init /\ [][ViewNext]_vars

\* playback: the current step advances by the timer only; the timer set by
\* the auto-play effect expires 1.5 s after it was set unless the effect's
\* cleanup has cleared it.  TimerExpiry is what an expiry does to
\* currentStep; of the steps of PlayNext only AutoPlayTimer is one, and it
\* is enabled exactly when AutoPlayTimer is
TimerExpiry ==
    /\ isPlaying /\ currentStep < MaxSteps(gates)
    /\ currentStep' = currentStep + 1
PlayNext ==
    \/ \E symbol \in ViewSymbols : handleGateSelect(symbol)
    \/ \E i \in DOMAIN gates : handleGateRemove(gates[i])
    \/ handleCircuitClear
    \/ \E index \in 0..MaxSelect : SetSelectedQubit(index)
    \/ \E b \in BOOLEAN : SetIsStepMode(b)
    \/ handleStepPlay
    \/ handleStepPause
    \/ handleStepStop
    \/ handleStepReset
    \/ AutoPlayTimer
    \/ \E n \in QubitButtons : SetNumQubits(n)
SpecPlay == Init /\ [][PlayNext]_vars /\ WF_currentStep(TimerExpiry)

\* circuits built and run across qubit-count changes, mode switches and
\* clicks on the displayed Bloch spheres
MismatchNext ==
    \/ \E symbol \in ToolboxSymbols : handleGateSelect(symbol)
    \/ \E i \in DOMAIN gates : handleGateRemove(gates[i])
    \/ handleCircuitRun
    \/ handleCircuitClear
    \/ \E n \in QubitButtons : SetNumQubits(n)
    \/ \E index \in SphereIndices : SetSelectedQubit(index)
    \/ \E b \in BOOLEAN : SetIsStepMode(b)
SpecMismatch == Init /\ [][MismatchNext]_vars

\* a circuit filled up to the limit of handleGateSelect, one placement
\* after another on the selected qubit, with a gate the executors skip, and
\* stepped through; placements are attempted up to one past the limit
LimitSymbols == {"+"}
LimitNext ==
    \/ \E symbol \in LimitSymbols :
           handleGateSelectUpTo(symbol, GateLimit + 1, GateLimit)
    \/ \E b \in BOOLEAN : SetIsStepMode(b)
    \/ handleStepPlay
    \/ handleStepForward
    \/ AutoPlayTimer
SpecLimit == Init /\ [][LimitNext]_vars

\* ------------------------------------------- QuantumState used directly
\* arrays handed to the constructor: for each length 2^m the vector with
\* distinct entries 1, 2, 3, ... and the basis vector whose only 1 stands at
\* the middle index (|10...0>); the constructor is also called with a
\* qubit count that does not match the length
RampArray(len) == [i \in 0..(len - 1) |-> C(i + 1, 0)]
BasisArray(len, at) == [i \in 0..(len - 1) |-> C(IF i = at THEN 1 ELSE 0, 0)]
InitialArrays ==
    UNION {{RampArray(2 ^ m), BasisArray(2 ^ m, (2 ^ m) \div 2)} : m \in 0..MaxTestQubits}
\* qubit arguments passed to the methods of a state of n qubits: the valid
\* ones and one beyond each end
QubitArguments(n) == (-1)..n

CallRecord(op, arg, receiver, result) ==
    [op |-> op, numQubits |-> receiver.numQubits, given |-> <<>>, arg |-> arg,
     receiver |-> receiver, result |-> result]

\* a use of the class constructs its state first, transforms it and ends
\* with a query
Constructing == call.op = "new"

\* new QuantumState(n)
New(n) ==
    /\ Constructing
    /\ psi' = QuantumState(n, <<>>)
    /\ ops' = 0
    /\ call' = NewCall(n, <<>>)
    /\ UNCHANGED <<uiVars, memVars>>

\* new QuantumState(n, initialState)
NewFrom(n, initialState) ==
    /\ Constructing
    /\ psi' = QuantumState(n, <<initialState>>)
    /\ ops' = 0
    /\ call' = NewCall(n, <<initialState>>)
    /\ UNCHANGED <<uiVars, memVars>>

\* the transforms act on the state as constructed or transformed
Transformable == call.op \in {"new", "applyGate", "applyCNOT"} /\ ops < MaxOps

\* psi = psi.applyGate(QuantumGates[name], qubitIndex)
ApplyGate(name, qubitIndex) ==
    /\ Transformable
    /\ \E r \in {applyGate(psi, QuantumGates[name], qubitIndex)} :
         /\ psi' = IF r.threw = "none" THEN r.value ELSE psi
         /\ call' = CallRecord("applyGate", <<name, qubitIndex>>, psi, r)
    /\ ops' = ops + 1
    /\ UNCHANGED <<uiVars, memVars>>

\* psi = psi.applyCNOT(controlQubit, targetQubit), on a state whose vector
\* has 2^numQubits entries and with qubits of the state
ApplyCNOT(controlQubit, targetQubit) ==
    /\ Transformable
    /\ Length(psi.amplitudes) = 2 ^ psi.numQubits
    /\ controlQubit \in 0..(psi.numQubits - 1)
    /\ targetQubit \in 0..(psi.numQubits - 1)
    /\ \E r \in {applyCNOT(psi, controlQubit, targetQubit)} :
         /\ psi' = r
         /\ call' = CallRecord("applyCNOT", <<controlQubit, targetQubit>>, psi,
                               Returned(r))
    /\ ops' = ops + 1
    /\ UNCHANGED <<uiVars, memVars>>

\* psi.getReducedDensityMatrix(qubitIndex)
GetReducedDensityMatrix(qubitIndex) ==
    /\ call.op \in {"new", "applyGate", "applyCNOT"}
    /\ call' = CallRecord("getReducedDensityMatrix", <<qubitIndex>>, psi,
                          getReducedDensityMatrix(psi, qubitIndex))
    /\ UNCHANGED <<psi, ops>>
    /\ UNCHANGED <<uiVars, memVars>>

\* psi.getBlochVector(qubitIndex)
GetBlochVector(qubitIndex) ==
    /\ call.op \in {"new", "applyGate", "applyCNOT"}
    /\ call' = CallRecord("getBlochVector", <<qubitIndex>>, psi,
                          getBlochVector(psi, qubitIndex))
    /\ UNCHANGED <<psi, ops>>
    /\ UNCHANGED <<uiVars, memVars>>

StateNext ==
    \/ \E n \in 1..MaxTestQubits : New(n)
    \/ \E n \in 1..MaxTestQubits : \E initialState \in InitialArrays : NewFrom(n, initialState)
    \/ \E name \in GateNames : \E qubitIndex \in QubitArguments(psi.numQubits) :
         ApplyGate(name, qubitIndex)
    \/ \E controlQubit \in 0..(MaxTestQubits - 1) : \E targetQubit \in 0..(MaxTestQubits - 1) :
         ApplyCNOT(controlQubit, targetQubit)
    \/ \E qubitIndex \in QubitArguments(psi.numQubits) : GetReducedDensityMatrix(qubitIndex)
    \/ \E qubitIndex \in QubitArguments(psi.numQubits) : GetBlochVector(qubitIndex)
SpecState == Init /\ [][StateNext]_vars

\* ------------------------- sequences of transforms of an all-zero state
\* the qubit counts of the all-zero states the sequences start from
SequenceQubits == {1, 2}

\* psi = psi.applyGate(QuantumGates[name], qubitIndex), qubitIndex a qubit
\* of the state
SeqApplyGate(name, qubitIndex) ==
    /\ call.op \in {"new", "applyGate", "applyCNOT"}
    /\ ops < MaxSeq
    /\ qubitIndex \in 0..(psi.numQubits - 1)
    /\ \E r \in {applyGate(psi, QuantumGates[name], qubitIndex)} :
         /\ psi' = r.value
         /\ call' = CallRecord("applyGate", <<name, qubitIndex>>, psi, r)
    /\ ops' = ops + 1
    /\ UNCHANGED <<uiVars, memVars>>

\* psi = psi.applyCNOT(controlQubit, targetQubit), on distinct qubits of the
\* state
SeqApplyCNOT(controlQubit, targetQubit) ==
    /\ call.op \in {"new", "applyGate", "applyCNOT"}
    /\ ops < MaxSeq
    /\ controlQubit \in 0..(psi.numQubits - 1)
    /\ targetQubit \in 0..(psi.numQubits - 1)
    /\ controlQubit # targetQubit
    /\ \E r \in {applyCNOT(psi, controlQubit, targetQubit)} :
         /\ psi' = r
         /\ call' = CallRecord("applyCNOT", <<controlQubit, targetQubit>>, psi,
                               Returned(r))
    /\ ops' = ops + 1
    /\ UNCHANGED <<uiVars, memVars>>

SequenceNext ==
    \/ \E n \in SequenceQubits : New(n)
    \/ \E name \in GateNames : \E qubitIndex \in 0..1 : SeqApplyGate(name, qubitIndex)
    \/ \E controlQubit \in 0..1 : \E targetQubit \in 0..1 :
         SeqApplyCNOT(controlQubit, targetQubit)
    \/ \E qubitIndex \in 0..1 :
         /\ qubitIndex < psi.numQubits
         /\ GetReducedDensityMatrix(qubitIndex)
    \/ \E qubitIndex \in 0..1 :
         /\ qubitIndex < psi.numQubits
         /\ GetBlochVector(qubitIndex)
SpecSequence == Init /\ [][SequenceNext]_vars

\* --------------------------------- Pauli gates on an all-zero register
\* the qubit counts of the registers
FlipQubits == 1..4

FlipNext ==
    \/ \E n \in FlipQubits : New(n)
    \/ \E name \in {"X", "Y", "Z"} : \E qubitIndex \in 0..3 :
         /\ qubitIndex < psi.numQubits
         /\ ApplyGate(name, qubitIndex)
    \/ \E qubitIndex \in 0..3 :
         /\ qubitIndex < psi.numQubits
         /\ GetReducedDensityMatrix(qubitIndex)
    \/ \E qubitIndex \in 0..3 :
         /\ qubitIndex < psi.numQubits
         /\ GetBlochVector(qubitIndex)
SpecFlip == Init /\ [][FlipNext]_vars

\* ----------------------------------------- arrays shared between objects
\* number of element writes the user of a state makes into arrays it holds
MaxWrites == 1

\* an identity no live array has
Fresh(h) == CHOOSE id \in 1..(Cardinality(DOMAIN h) + 1) : id \notin DOMAIN h
\* variant: no copy is made, the same array is used
SpreadShared(h, id) == [heap |-> h, id |-> id]
\* [...array]: a new array with the elements of the array id
Spread(h, id) == [heap |-> (Fresh(h) :> h[id]) @@ h, id |-> Fresh(h)]
\* an array literal or new Array(...) with the given contents
Allocate(h, contents) == [heap |-> (Fresh(h) :> contents) @@ h, id |-> Fresh(h)]
\* the arrays still referenced by the state, its last result or its user
Collect(h, roots) == [id \in DOMAIN h \cap roots |-> h[id]]
\* the instance at an identity-holding object, with its array's contents
Deref(h, obj) == [numQubits |-> obj.numQubits, amplitudes |-> h[obj.amplitudes]]

\* self = new QuantumState(n)
AliasNew(n) ==
    /\ call.op \in {"new", "getAmplitudes", "write"}
    /\ \E a \in {Allocate(<<>>, ZeroAmplitudes(n))} :
         /\ heap' = a.heap
         /\ self' = [numQubits |-> n, amplitudes |-> a.id]
         /\ built' = a.heap[a.id]
    /\ held' = 0
    /\ made' = NoObject
    /\ writes' = 0
    /\ call' = NewCall(n, <<>>)
    /\ UNCHANGED <<uiVars, psi, ops>>

\* initialState = [...]; self = new QuantumState(n, initialState): the user
\* keeps initialState
AliasNewFrom(n, initialState) ==
    /\ call.op \in {"new", "getAmplitudes", "write"}
    /\ \E given \in {Allocate(<<>>, initialState)} :
       \E a \in {Spread(given.heap, given.id)} :
         /\ heap' = a.heap
         /\ self' = [numQubits |-> n, amplitudes |-> a.id]
         /\ built' = a.heap[a.id]
         /\ held' = given.id
    /\ made' = NoObject
    /\ writes' = 0
    /\ call' = NewCall(n, <<initialState>>)
    /\ UNCHANGED <<uiVars, psi, ops>>

\* held = self.getAmplitudes()
getAmplitudes ==
    /\ call.op \in {"new", "getAmplitudes", "write"}
    /\ IF held = 0 THEN TRUE ELSE heap[held] # heap[self.amplitudes]
    /\ \E a \in {Spread(heap, self.amplitudes)} :
         /\ heap' = Collect(a.heap, {self.amplitudes, a.id})
         /\ held' = a.id
    /\ call' = CallRecord("getAmplitudes", <<>>, Deref(heap, self),
                          Returned(heap[self.amplitudes]))
    /\ UNCHANGED <<uiVars, psi, ops, self, made, writes, built>>

\* held[index] = value
WriteHeld(index, value) ==
    /\ call.op \in {"new", "getAmplitudes", "write"}
    /\ held # 0
    /\ writes < MaxWrites
    /\ index \in DOMAIN heap[held]
    /\ heap[held][index] # value
    /\ heap' = [heap EXCEPT ![held][index] = value]
    /\ writes' = writes + 1
    /\ call' = CallRecord("write", <<index>>, Deref(heap, self), Returned(value))
    /\ UNCHANGED <<uiVars, psi, ops, self, held, made, built>>

\* made = self.applyGate(QuantumGates[name], qubitIndex): the method fills a
\* new array and the constructor copies it
AliasApplyGate(name, qubitIndex) ==
    /\ call.op \in {"new", "getAmplitudes", "write"}
    /\ qubitIndex \in 0..(self.numQubits - 1)
    /\ Length(heap[self.amplitudes]) = 2 ^ self.numQubits
    /\ \E r \in {applyGate(Deref(heap, self), QuantumGates[name], qubitIndex)} :
       \E newAmplitudes \in {Allocate(heap, r.value.amplitudes)} :
       \E a \in {Spread(newAmplitudes.heap, newAmplitudes.id)} :
         /\ heap' = Collect(a.heap, {self.amplitudes, held, a.id})
         /\ made' = [numQubits |-> self.numQubits, amplitudes |-> a.id]
         /\ call' = CallRecord("applyGate", <<name, qubitIndex>>, Deref(heap, self), r)
    /\ UNCHANGED <<uiVars, psi, ops, self, held, writes, built>>

\* made = self.applyCNOT(controlQubit, targetQubit): the method copies the
\* receiver's array, swaps within the copy and the constructor copies it
AliasApplyCNOT(controlQubit, targetQubit) ==
    /\ call.op \in {"new", "getAmplitudes", "write"}
    /\ controlQubit \in 0..(self.numQubits - 1)
    /\ targetQubit \in 0..(self.numQubits - 1)
    /\ controlQubit # targetQubit
    /\ Length(heap[self.amplitudes]) = 2 ^ self.numQubits
    /\ \E newAmplitudes \in {Spread(heap, self.amplitudes)} :
       \E swapped \in {[newAmplitudes.heap EXCEPT ![newAmplitudes.id] =
                          CNOTLoop(Deref(heap, self), controlQubit, targetQubit, 0, @)]} :
       \E a \in {Spread(swapped, newAmplitudes.id)} :
         /\ heap' = Collect(a.heap, {self.amplitudes, held, a.id})
         /\ made' = [numQubits |-> self.numQubits, amplitudes |-> a.id]
         /\ call' = CallRecord("applyCNOT", <<controlQubit, targetQubit>>,
                               Deref(heap, self), Returned(Deref(a.heap, made')))
    /\ UNCHANGED <<uiVars, psi, ops, self, held, writes, built>>

\* self.getDensityMatrix(), self.getReducedDensityMatrix(qubitIndex) or
\* self.getBlochVector(qubitIndex): they read the receiver's array
AliasQuery(op, qubitIndex) ==
    /\ call.op \in {"new", "getAmplitudes", "write"}
    /\ qubitIndex \in 0..(self.numQubits - 1)
    /\ Length(heap[self.amplitudes]) = 2 ^ self.numQubits
    /\ call' = CallRecord(op, <<qubitIndex>>, Deref(heap, self),
                 CASE op = "getDensityMatrix" -> Returned(getDensityMatrix(Deref(heap, self)))
                   [] op = "getReducedDensityMatrix" ->
                        getReducedDensityMatrix(Deref(heap, self), qubitIndex)
                   [] op = "getBlochVector" -> getBlochVector(Deref(heap, self), qubitIndex))
    /\ UNCHANGED <<uiVars, psi, ops, memVars>>

\* the values the user writes into an array
WriteValues == {C(0, 1)}

AliasNext ==
    \/ \E n \in SequenceQubits : AliasNew(n)
    \/ \E n \in SequenceQubits : AliasNewFrom(n, RampArray(2 ^ n))
    \/ getAmplitudes
    \/ \E index \in 0..(2 ^ 2 - 1) : \E value \in WriteValues : WriteHeld(index, value)
    \/ \E name \in GateNames : \E qubitIndex \in 0..1 : AliasApplyGate(name, qubitIndex)
    \/ \E controlQubit \in 0..1 : \E targetQubit \in 0..1 :
         AliasApplyCNOT(controlQubit, targetQubit)
    \/ \E op \in {"getDensityMatrix", "getReducedDensityMatrix", "getBlochVector"} :
         \E qubitIndex \in 0..1 : AliasQuery(op, qubitIndex)
SpecAlias == Init /\ [][AliasNext]_vars

\* circuit editing alone: toolbox, gate badges, clear, qubit count, spheres
CircuitNext ==
    \/ \E symbol \in ToolboxSymbols : handleGateSelect(symbol)
    \/ \E i \in DOMAIN gates : handleGateRemove(gates[i])
    \/ handleCircuitClear
    \/ \E n \in QubitButtons : SetNumQubits(n)
    \/ \E index \in SphereIndices : SetSelectedQubit(index)
SpecCircuit == Init /\ [][CircuitNext]_vars

\* handleGateRemove called with any key, present in the circuit or not, on
\* circuits of up to MaxPlaced placements; cutoff 0 applies none of them
MaxPlaced == 3
RemoveQubits == {0, 1}
RemoveNext ==
    \/ \E symbol \in ToolboxSymbols : handleGateSelectWithin(symbol, MaxPlaced)
    \/ \E qubit \in RemoveQubits : \E step \in 0..MaxStep :
           handleGateRemove([qubit |-> qubit, step |-> step])
    \/ \E index \in RemoveQubits : SetSelectedQubit(index)
SpecRemove == Init /\ [][RemoveNext]_vars

\* building a circuit and running it in full (full-run mode)
RunNext ==
    \/ \E symbol \in ToolboxSymbols : handleGateSelect(symbol)
    \/ \E i \in DOMAIN gates : handleGateRemove(gates[i])
    \/ \E index \in 0..MaxSelect : SetSelectedQubit(index)
    \/ handleCircuitRun
SpecRun == Init /\ [][RunNext]_vars

\* building a circuit and stepping through it
StepNext ==
    \/ \E symbol \in ToolboxSymbols : handleGateSelect(symbol)
    \/ \E i \in DOMAIN gates : handleGateRemove(gates[i])
    \/ \E index \in 0..MaxSelect : SetSelectedQubit(index)
    \/ \E b \in BOOLEAN : SetIsStepMode(b)
    \/ \E step \in 0..(MaxStep + 1) : handleStepTo(step)
    \/ handleStepForward
    \/ handleStepBack
SpecStep == Init /\ [][StepNext]_vars

\* ================================================================ claims
\* the sum of the values of a function with a finite domain, used to state
\* the claims about sums of amplitudes
RECURSIVE SumOver(_)
SumOver(f) ==
    IF DOMAIN f = {} THEN C(0, 0)
    ELSE LET x == CHOOSE y \in DOMAIN f : TRUE
         IN  add(f[x], SumOver([y \in DOMAIN f \ {x} |-> f[y]]))

\* ---- C1 (as stated; refuted by the code)
\* For control # target, applyCNOT(control, target) returns a state whose
\* amplitude at every index with control bit 1 is the receiver's amplitude
\* at the index with the target bit flipped, and whose amplitude at every
\* index with control bit 0 is the receiver's.
C1_CNOTSwapsOnce ==
    (call.op = "applyCNOT" /\ call.arg[1] # call.arg[2]) =>
        \A s \in DOMAIN call.receiver.amplitudes :
            call.result.value.amplitudes[s] =
                IF BitAt(s, call.numQubits - 1 - call.arg[1]) = 1
                THEN call.receiver.amplitudes[XorBit(s, call.numQubits - 1 - call.arg[2])]
                ELSE call.receiver.amplitudes[s]

\* ---- C2
\* A step execution with cutoff k of a circuit whose placements lie on
\* qubits of the state raises no error and applies exactly the placements
\* with a recognized symbol whose step is < k, each once; with cutoff 0 the
\* stepped state is the all-zero state.
C2_StepCutoff ==
    (/\ lastExec.kind = "step"
     /\ \A i \in DOMAIN lastExec.gateArray :
            lastExec.gateArray[i].qubit \in 0..(lastExec.numQubits - 1)) =>
        LET below == {g \in {lastExec.gateArray[i] : i \in DOMAIN lastExec.gateArray} :
                         g.symbol \in RecognizedSymbols /\ g.step < lastExec.step}
        IN  /\ lastExec.threw = "none"
            /\ {lastExec.applied[i] : i \in DOMAIN lastExec.applied} = below
            /\ Len(lastExec.applied) = Cardinality(below)
            /\ lastExec.step = 0 =>
                 /\ steppedQuantumState.numQubits = lastExec.numQubits
                 /\ DOMAIN steppedQuantumState.amplitudes = 0..(2 ^ lastExec.numQubits - 1)
                 /\ \A s \in DOMAIN steppedQuantumState.amplitudes :
                        steppedQuantumState.amplitudes[s] = C(IF s = 0 THEN 1 ELSE 0, 0)
\* a step execution with a cutoff that separates two recognized placements
C2_Witness ==
    /\ lastExec.kind = "step"
    /\ lastExec.step = 1
    /\ Len(lastExec.gateArray) = 2
    /\ \A i \in DOMAIN lastExec.gateArray : lastExec.gateArray[i].symbol = "H"
    /\ \E i \in DOMAIN lastExec.gateArray : lastExec.gateArray[i].step = 1
    /\ Len(lastExec.applied) = 1

\* ---- C3
\* A run of a circuit whose placements lie on qubits of the state applies
\* the placements in ascending step order, whatever the insertion order,
\* applies each placement with a recognized symbol exactly once and applies
\* nothing else.
C3_RunOrder ==
    (/\ lastExec.kind = "run"
     /\ \A i \in DOMAIN lastExec.gateArray :
            lastExec.gateArray[i].qubit \in 0..(lastExec.numQubits - 1)) =>
        /\ \A i, j \in DOMAIN lastExec.applied :
               i < j => lastExec.applied[i].step <= lastExec.applied[j].step
        /\ \A i \in DOMAIN lastExec.gateArray :
               lastExec.gateArray[i].symbol \in RecognizedSymbols =>
                   Cardinality({k \in DOMAIN lastExec.applied :
                                   lastExec.applied[k] = lastExec.gateArray[i]}) = 1
        /\ \A k \in DOMAIN lastExec.applied :
               \E i \in DOMAIN lastExec.gateArray :
                   lastExec.applied[k] = lastExec.gateArray[i]
\* a run of two recognized placements inserted in descending step order
C3_Witness ==
    /\ lastExec.kind = "run"
    /\ Len(lastExec.gateArray) = 2
    /\ lastExec.gateArray[1].step > lastExec.gateArray[2].step
    /\ Len(lastExec.applied) = 2
    /\ lastExec.applied[1] = lastExec.gateArray[2]

\* ---- C4
\* A placement appends to the circuit one placement on the selected qubit
\* whose step is the largest step among that qubit's placements plus 1, or
\* 0 when the qubit has none; the other placements stay as they were.
C4_PlaceStep ==
    [][Len(gates') = Len(gates) + 1 =>
         LET onQubit == {gates[i].step : i \in {j \in DOMAIN gates :
                                                   gates[j].qubit = selectedQubit}}
             placed == gates'[Len(gates')]
         IN  /\ SubSeq(gates', 1, Len(gates)) = gates
             /\ placed.qubit = selectedQubit
             /\ placed.step = IF onQubit = {} THEN 0
                              ELSE (CHOOSE m \in onQubit : \A x \in onQubit : x <= m) + 1]_vars
\* a placement made after a removal left a gap below it, while another
\* qubit's column is empty: step 2 follows step 1 on qubit 0
C4_Witness ==
    /\ Len(gates) = 2
    /\ gates[1].qubit = 0 /\ gates[1].step = 1
    /\ gates[2].qubit = 0 /\ gates[2].step = 2
    /\ numQubits = 3

\* ---- C5
\* In every state reached by placements, removals, clears and qubit-count
\* changes no two placements of the circuit share a (qubit, step) pair.
C5_UniqueCell ==
    \A i, j \in DOMAIN gates :
        (gates[i].qubit = gates[j].qubit /\ gates[i].step = gates[j].step) => i = j
\* after a qubit-count change: two placements on one qubit, the second made
\* when an earlier placement of the qubit had been removed
C5_Witness ==
    /\ numQubits = 2
    /\ Len(gates) = 2
    /\ gates[1].qubit = gates[2].qubit
    /\ gates[1].step > 0

\* ---- C6 (as stated; refuted by the code)
\* The depth reported for the circuit is the largest step of its placements
\* plus 1, and 0 when the circuit has no placements.
C6_Depth ==
    MaxSteps(gates) =
        IF gates = <<>> THEN 0
        ELSE (CHOOSE m \in StepsOf(gates) : \A x \in StepsOf(gates) : x <= m) + 1

\* ---- C7
\* An execution of a circuit that holds a placement with an unrecognized
\* symbol (its placements lying on qubits of the state) raises no error and
\* applies the same placements, with the same resulting state, as the
\* execution of the circuit without its unrecognized placements.
C7_SkipUnrecognized ==
    (/\ \E i \in DOMAIN lastExec.gateArray :
            lastExec.gateArray[i].symbol \notin RecognizedSymbols
     /\ \A i \in DOMAIN lastExec.gateArray :
            lastExec.gateArray[i].qubit \in 0..(lastExec.numQubits - 1)) =>
        LET known == SelectSeq(lastExec.gateArray,
                               LAMBDA g : g.symbol \in RecognizedSymbols)
        IN  /\ lastExec.threw = "none"
            /\ lastExec.kind = "run" =>
                 \E r \in {RunExecution(lastExec.numQubits, known)} :
                     /\ lastExec.applied = r.applied
                     /\ quantumState = r.state
            /\ lastExec.kind = "step" =>
                 \E r \in {StepExecution(lastExec.numQubits, lastExec.step, known)} :
                     /\ lastExec.applied = r.applied
                     /\ steppedQuantumState = r.state
\* a run in which an unrecognized placement precedes a recognized one,
\* which is applied
C7_Witness ==
    /\ lastExec.kind = "run"
    /\ Len(lastExec.gateArray) = 2
    /\ \E i, j \in DOMAIN lastExec.gateArray :
          /\ lastExec.gateArray[i].symbol = "+"
          /\ lastExec.gateArray[j].symbol = "H"
          /\ lastExec.gateArray[i].step < lastExec.gateArray[j].step
          /\ lastExec.applied = <<lastExec.gateArray[j]>>
    /\ lastExec.threw = "none"

\* ---- C8
\* A QuantumState constructed with n qubits and no initial amplitudes has
\* 2^n amplitudes, the first (1, 0) and every other (0, 0).
C8_ZeroState ==
    (call.op = "new" /\ call.given = <<>>) =>
        /\ psi.numQubits = call.numQubits
        /\ DOMAIN psi.amplitudes = 0..(2 ^ call.numQubits - 1)
        /\ psi.amplitudes[0] = Complex(RealOf(1), RealOf(0))
        /\ \A s \in DOMAIN psi.amplitudes :
               s # 0 => psi.amplitudes[s] = Complex(RealOf(0), RealOf(0))
\* a state of more than one qubit built without initial amplitudes
C8_Witness ==
    /\ call.op = "new"
    /\ call.given = <<>>
    /\ call.numQubits = MaxTestQubits
    /\ psi = call.result.value

\* ---- C9 (as stated; refuted by the code)
\* The constructor fails when the initial amplitude sequence has a length
\* other than 2^numQubits, and no state with such a vector exists.
C9_LengthChecked ==
    /\ (/\ call.op = "new"
        /\ call.given # <<>>
        /\ Length(call.given[1]) # 2 ^ call.numQubits) =>
            call.result.threw = "InvalidStateVector"
    /\ Length(psi.amplitudes) = 2 ^ psi.numQubits

\* ---- C10 (as stated; refuted by the code)
\* getReducedDensityMatrix(qubitIndex) and getBlochVector(qubitIndex) return
\* a value exactly when 0 <= qubitIndex < numQubits and fail otherwise.
C10_IndexChecked ==
    call.op \in {"getReducedDensityMatrix", "getBlochVector"} =>
        (call.result.threw = "none" <=> call.arg[1] \in 0..(call.numQubits - 1))

\* ---- C11
\* The amplitude vector of a state stays the one it was constructed with:
\* applyGate and applyCNOT return an instance with an array of its own,
\* holding the result, and leave the receiver's array as it was; the
\* queries leave it as it was; a write into the array passed to the
\* constructor or into the array returned by getAmplitudes() does not
\* reach it.
C11_NoMutation ==
    /\ heap[self.amplitudes] = built
    /\ held # self.amplitudes
    /\ (made # NoObject) =>
          /\ made.amplitudes \notin {self.amplitudes, held}
          /\ heap[made.amplitudes] = call.result.value.amplitudes
          /\ call.receiver.amplitudes = built
\* the user has written into an array it holds, which now differs from the
\* vector of the state
C11_Witness ==
    /\ call.op = "write"
    /\ writes = 1
    /\ held # 0
    /\ heap[held] # built
    /\ heap[self.amplitudes] = built

\* ---- C12
\* applyGate(gate, q) on a state of n qubits (q one of them) returns the
\* state whose amplitude at every index t is
\*   gate[t_q][0] * amplitude[t with bit q 0] + gate[t_q][1] * amplitude[t with bit q 1],
\* the bit of qubit q being bit n-1-q of the index.
C12_TensorApplication ==
    (/\ call.op = "applyGate"
     /\ call.arg[2] \in 0..(call.numQubits - 1)
     /\ Length(call.receiver.amplitudes) = 2 ^ call.numQubits) =>
        /\ call.result.threw = "none"
        /\ call.result.value.numQubits = call.numQubits
        /\ DOMAIN call.result.value.amplitudes = 0..(2 ^ call.numQubits - 1)
        /\ \A t \in 0..(2 ^ call.numQubits - 1) :
             LET weight == 2 ^ (call.numQubits - 1 - call.arg[2])
                 bit == (t \div weight) % 2
                 low == t - bit * weight
                 gate == QuantumGates[call.arg[1]]
             IN  call.result.value.amplitudes[t] =
                     add(multiply(gate[bit][0], call.receiver.amplitudes[low]),
                         multiply(gate[bit][1], call.receiver.amplitudes[low + weight]))
\* Y applied to the first of two qubits of a state with distinct amplitudes
C12_Witness ==
    /\ call.op = "applyGate"
    /\ call.arg = <<"Y", 0>>
    /\ call.numQubits = 2
    /\ call.receiver.amplitudes = RampArray(4)
    /\ call.result.threw = "none"
    /\ psi = call.result.value

\* ---- C13
\* For a qubit q of a state of n qubits, getReducedDensityMatrix(q)[a][b] is
\* the sum, over the indices r whose bit of q is 0, of
\* amplitude[r with bit a] * conjugate(amplitude[r with bit b]); its trace is
\* the sum of |amplitude_i|^2 and it is Hermitian.
C13_PartialTrace ==
    (/\ call.op = "getReducedDensityMatrix"
     /\ call.arg[1] \in 0..(call.numQubits - 1)
     /\ Length(call.receiver.amplitudes) = 2 ^ call.numQubits) =>
        LET weight == 2 ^ (call.numQubits - 1 - call.arg[1])
            amp == call.receiver.amplitudes
            rest == {r \in DOMAIN amp : (r \div weight) % 2 = 0}
            Entry(a, b) ==
                SumOver([r \in rest |-> multiply(amp[r + a * weight],
                                                 conjugate(amp[r + b * weight]))])
        IN  /\ call.result.threw = "none"
            /\ \A a, b \in 0..1 :
                  /\ call.result.value[a][b] = Entry(a, b)
                  /\ call.result.value[b][a] = conjugate(call.result.value[a][b])
            /\ add(call.result.value[0][0], call.result.value[1][1]) =
                   SumOver([i \in DOMAIN amp |-> multiply(amp[i], conjugate(amp[i]))])
\* the reduced density matrix of a qubit of a two-qubit state with an
\* amplitude that is not real
C13_Witness ==
    /\ call.op = "getReducedDensityMatrix"
    /\ call.numQubits = 2
    /\ call.arg[1] \in 0..1
    /\ \E i \in DOMAIN call.receiver.amplitudes :
          call.receiver.amplitudes[i].imaginary # RealOf(0)
    /\ call.result.threw = "none"
    /\ call.result.value[0][1] # C(0, 0)

\* ---- C14 (as stated; refuted by the code)
\* For a qubit q of a normalized state, getBlochVector(q) returns the
\* expectation values <psi| X_q |psi>, <psi| Y_q |psi>, <psi| Z_q |psi> of
\* the library's X, Y and Z.
C14_PauliExpectation ==
    (/\ call.op = "getBlochVector"
     /\ call.arg[1] \in 0..(call.numQubits - 1)
     /\ Length(call.receiver.amplitudes) = 2 ^ call.numQubits
     /\ SumOver([i \in DOMAIN call.receiver.amplitudes |->
                    multiply(call.receiver.amplitudes[i],
                             conjugate(call.receiver.amplitudes[i]))]) = C(1, 0)) =>
        LET amp == call.receiver.amplitudes
            Expectation(gate) ==
                LET image == applyGate(call.receiver, gate, call.arg[1]).value.amplitudes
                IN  SumOver([t \in DOMAIN amp |->
                                multiply(conjugate(amp[t]), image[t])]).real
        IN  /\ call.result.threw = "none"
            /\ call.result.value = [x |-> Expectation(QuantumGates.X),
                                    y |-> Expectation(QuantumGates.Y),
                                    z |-> Expectation(QuantumGates.Z)]

\* ---- C15
\* On the all-zero state of n qubits getBlochVector(q) is (0, 0, 1) for
\* every qubit q; after applyGate(X, q) it is (0, 0, -1) for q and (0, 0, 1)
\* for every other qubit.
C15_FlipOneQubit ==
    LET Zero == [i \in 0..(2 ^ call.numQubits - 1) |-> C(IF i = 0 THEN 1 ELSE 0, 0)]
        Flipped(q) == [i \in 0..(2 ^ call.numQubits - 1) |->
                          C(IF i = 2 ^ (call.numQubits - 1 - q) THEN 1 ELSE 0, 0)]
    IN  /\ (call.op = "applyGate" /\ call.arg[1] = "X" /\ call.receiver.amplitudes = Zero) =>
               /\ call.result.threw = "none"
               /\ call.result.value.amplitudes = Flipped(call.arg[2])
        /\ (call.op = "getBlochVector" /\ call.receiver.amplitudes = Zero) =>
               call.result = Returned([x |-> RealOf(0), y |-> RealOf(0), z |-> RealOf(1)])
        /\ \A q \in 0..(call.numQubits - 1) :
               (call.op = "getBlochVector" /\ call.receiver.amplitudes = Flipped(q)) =>
                   call.result = Returned([x |-> RealOf(0), y |-> RealOf(0),
                                           z |-> IF call.arg[1] = q THEN RealOf(-1)
                                                 ELSE RealOf(1)])
\* the Bloch vector of the flipped qubit of the largest register, the last
\* of its qubits
C15_Witness ==
    /\ call.op = "getBlochVector"
    /\ call.numQubits = 4
    /\ call.arg[1] = 3
    /\ ops = 1
    /\ call.receiver.amplitudes[1] = C(1, 0)
    /\ call.result.value.z = RealOf(-1)

\* ---- C16
\* After any sequence of applyGate calls with library gates on qubits of the
\* state, started from an all-zero state, the sum of |amplitude_i|^2 is 1.
C16_NormPreserved ==
    /\ Length(psi.amplitudes) = 2 ^ psi.numQubits
    /\ SumOver([i \in DOMAIN psi.amplitudes |->
                   multiply(psi.amplitudes[i], conjugate(psi.amplitudes[i]))]) = C(1, 0)
\* H then T on a qubit: an amplitude with equal non-zero real and imaginary
\* parts
C16_Witness ==
    /\ call.op = "applyGate"
    /\ call.arg[1] = "T"
    /\ ops = 2
    /\ \E i \in DOMAIN psi.amplitudes :
          /\ psi.amplitudes[i].real # RealOf(0)
          /\ psi.amplitudes[i].real = psi.amplitudes[i].imaginary

\* ---- C17
\* For a qubit q of a state, applyGate(H, q) followed by applyGate(H, q)
\* returns a state equal to the original, amplitude by amplitude.
C17_HadamardTwice ==
    (/\ call.op = "applyGate"
     /\ call.arg[1] = "H"
     /\ call.arg[2] \in 0..(call.numQubits - 1)
     /\ Length(call.receiver.amplitudes) = 2 ^ call.numQubits) =>
        /\ call.result.threw = "none"
        /\ applyGate(call.result.value, QuantumGates.H, call.arg[2]) =
               Returned(call.receiver)
\* H applied to the second qubit of a two-qubit state with distinct
\* amplitudes, which it changes
C17_Witness ==
    /\ call.op = "applyGate"
    /\ call.arg = <<"H", 1>>
    /\ call.numQubits = 2
    /\ call.receiver.amplitudes = RampArray(4)
    /\ call.result.threw = "none"
    /\ call.result.value # call.receiver

\* ---- C18
\* On the two-qubit all-zero state, applyGate(H, 0) followed by
\* applyCNOT(0, 1) yields a state whose reduced density matrix is
\* identity/2 for qubit 0 and for qubit 1, and whose Bloch vector is
\* (0, 0, 0), of magnitude 0, for each of the two qubits.
BellPrepared ==
    applyCNOT(applyGate(QuantumState(2, <<>>), QuantumGates.H, 0).value, 0, 1)
HalfIdentity ==
    Matrix(Complex(<<Scale \div 2, 0>>, RealOf(0)), C(0, 0),
           C(0, 0), Complex(<<Scale \div 2, 0>>, RealOf(0)))
C18_BellMaximallyMixed ==
    (/\ call.op \in {"getReducedDensityMatrix", "getBlochVector"}
     /\ call.receiver = BellPrepared
     /\ call.arg[1] \in {0, 1}) =>
        /\ call.result.threw = "none"
        /\ call.op = "getReducedDensityMatrix" =>
               call.result.value = HalfIdentity
        /\ call.op = "getBlochVector" =>
               call.result.value =
                   [x |-> RealOf(0), y |-> RealOf(0), z |-> RealOf(0)]

\* ---- C19
\* Gates on different qubits commute: for a state, gates g1 and g2 and
\* qubits q1 # q2 of it, applyGate(g1, q1) then applyGate(g2, q2) equals
\* applyGate(g2, q2) then applyGate(g1, q1); hence executing two placements
\* that share a step on different qubits from that state, sorted by step as
\* a run sorts them, ends in the same state whichever was inserted first.
SymbolsOf(name) ==
    {symbol \in RecognizedSymbols :
        \A qs \in {QuantumState(1, <<RampArray(2)>>)} :
            ApplyPlacement(qs, Placement(0, 0, symbol)) =
                applyGate(qs, QuantumGates[name], 0)}
C19_DifferentQubitsCommute ==
    (/\ call.op = "applyGate"
     /\ call.arg[2] \in 0..(call.numQubits - 1)
     /\ Length(call.receiver.amplitudes) = 2 ^ call.numQubits) =>
        \A otherQubit \in (0..(call.numQubits - 1)) \ {call.arg[2]} :
            /\ \A otherName \in GateNames :
                   applyGate(call.result.value, QuantumGates[otherName], otherQubit) =
                       applyGate(applyGate(call.receiver, QuantumGates[otherName],
                                           otherQubit).value,
                                 QuantumGates[call.arg[1]], call.arg[2])
            /\ \A firstSymbol \in SymbolsOf(call.arg[1]) :
               \A secondSymbol \in RecognizedSymbols :
                   LET first == Placement(call.arg[2], 0, firstSymbol)
                       second == Placement(otherQubit, 0, secondSymbol)
                   IN  RunLoop(call.receiver, SortByStep(<<first, second>>), 1, <<>>).state =
                       RunLoop(call.receiver, SortByStep(<<second, first>>), 1, <<>>).state
\* T applied to the first qubit of a two-qubit state with distinct
\* amplitudes: the state has another qubit for a second gate to act on
C19_Witness ==
    /\ call.op = "applyGate"
    /\ call.arg = <<"T", 0>>
    /\ call.numQubits = 2
    /\ call.receiver.amplitudes = RampArray(4)
    /\ call.result.threw = "none"
    /\ call.result.value # call.receiver

\* ---- C20
\* handleGateRemove with the key (qubit, step) deletes exactly the
\* placement with that key if the circuit has one and leaves the circuit as
\* it is otherwise; every other placement keeps its qubit, step, symbol and
\* its position relative to the others.
C20_RemoveExact ==
    [][\A qubit \in RemoveQubits : \A step \in 0..MaxStep :
          handleGateRemove([qubit |-> qubit, step |-> step]) =>
              LET hit == {i \in DOMAIN gates :
                             gates[i].qubit = qubit /\ gates[i].step = step}
              IN  /\ Cardinality(hit) <= 1
                  /\ hit = {} => gates' = gates
                  /\ \A i \in hit :
                         gates' = SubSeq(gates, 1, i - 1) \o
                                  SubSeq(gates, i + 1, Len(gates))]_vars
\* two placements left after the first placement of qubit 0 was removed:
\* the later placement of qubit 0 is still at step 1 and still ahead of the
\* placement of qubit 1
C20_Witness ==
    /\ gates = <<Placement(0, 1, "+"), Placement(1, 0, "H")>>
    /\ lastExec.gateArray = gates

\* ---- C21
\* A click on the qubit-count button n leaves the circuit empty, the
\* selected qubit 0, the current step 0, playback stopped, and both the
\* full-run and the stepped quantum state equal to the n-qubit all-zero
\* state.
AllZero(n) ==
    [numQubits |-> n,
     amplitudes |-> [s \in 0..(2 ^ n - 1) |-> C(IF s = 0 THEN 1 ELSE 0, 0)]]
C21_QubitCountChange ==
    [][\A n \in QubitButtons :
          SetNumQubits(n) =>
              /\ numQubits' = n
              /\ gates' = <<>>
              /\ selectedQubit' = 0
              /\ currentStep' = 0
              /\ isPlaying' = FALSE
              /\ quantumState' = AllZero(n)
              /\ steppedQuantumState' = AllZero(n)]_vars
\* two qubits in step mode right after the change from three: the effect
\* of the new render has executed the empty circuit for two qubits
C21_Witness ==
    /\ numQubits = 2
    /\ isStepMode
    /\ gates = <<>>
    /\ selectNumQubits = 2
    /\ lastExec = ExecRecord("step", 2, 0, <<>>, StepExecution(2, 0, <<>>))
    /\ steppedQuantumState = AllZero(2)

\* ---- C22
\* The circuit never holds more than 20 placements; a placement attempted
\* while it holds 20 leaves the circuit, the current step, the playback
\* flag and the stepped state as they are.
C22_AtMostTwenty ==
    [][/\ Len(gates) <= 20
       /\ Len(gates') <= 20
       /\ Len(gates) = 20 =>
              \A symbol \in LimitSymbols :
                  handleGateSelectUpTo(symbol, GateLimit + 1, GateLimit) =>
                      UNCHANGED <<gates, currentStep, isPlaying, steppedQuantumState,
                                  steppedBlochVectors, steppedDensityMatrices>>]_vars
\* a full circuit that is being played, at a step above 0: the state in
\* which a further placement is attempted and rejected
C22_Witness ==
    /\ Len(gates) = 20
    /\ isPlaying
    /\ currentStep = 2
    /\ lastExec.step = 2
    /\ Len(lastExec.gateArray) = 20

\* ---- C23 (as stated; refuted by the code)
\* A run of a circuit that contains a placement whose qubit is outside
\* 0..numQubits-1 fails with an error and leaves the published quantum
\* state, Bloch vectors and density matrices as they were before the run.
C23_MismatchFails ==
    [][(/\ \E i \in DOMAIN gates : gates[i].qubit \notin 0..(numQubits - 1)
        /\ handleCircuitRun) =>
           /\ lastExec'.threw # "none"
           /\ UNCHANGED <<quantumState, blochVectors, densityMatrices>>]_vars

\* ---- C24 (as stated; refuted by the code)
\* In every reachable state the stepped quantum state has numQubits qubits
\* and, together with the stepped Bloch vectors, equals the result of
\* replaying the current circuit from the all-zero state of numQubits qubits
\* with cutoff currentStep.
C24_SteppedIsReplay ==
    /\ steppedQuantumState.numQubits = numQubits
    /\ \E r \in {StepExecution(numQubits, currentStep, gates)} :
           r.threw = "none" =>
               /\ steppedQuantumState = r.state
               /\ steppedBlochVectors = r.blochVectors

\* ---- C25 (as stated; refuted by the code)
\* In every reachable state the selected qubit and the qubit of every
\* placement of the circuit lie in 0..numQubits-1.
C25_QubitsInRange ==
    /\ selectedQubit \in 0..(numQubits - 1)
    /\ \A i \in DOMAIN gates : gates[i].qubit \in 0..(numQubits - 1)

\* ---- C26
\* For the circuit and for every qubit count, a full run produces the same
\* quantum state, Bloch vectors and reduced density matrices as a step
\* execution whose cutoff is the largest step of the circuit plus one; the
\* values a run has published for the current circuit are those values.
C26_RunIsLastStep ==
    LET steps == {gates[i].step : i \in DOMAIN gates}
        cutoff == IF steps = {} THEN 1
                  ELSE (CHOOSE m \in steps : \A x \in steps : x <= m) + 1
    IN  /\ \A n \in QubitButtons :
               \E run \in {RunExecution(n, gates)} :
               \E stepped \in {StepExecution(n, cutoff, gates)} :
                   /\ run.threw = stepped.threw
                   /\ run.threw = "none" =>
                          /\ run.state = stepped.state
                          /\ run.blochVectors = stepped.blochVectors
                          /\ run.densityMatrices = stepped.densityMatrices
        /\ (/\ lastExec.kind = "run"
            /\ lastExec.gateArray = gates
            /\ lastExec.numQubits = numQubits
            /\ lastExec.threw = "none") =>
               \E stepped \in {StepExecution(numQubits, cutoff, gates)} :
                   /\ stepped.threw = "none"
                   /\ quantumState = stepped.state
                   /\ blochVectors = stepped.blochVectors
                   /\ densityMatrices = stepped.densityMatrices
\* the published result of a run of one H gate whose step is 1, left
\* there by the removal of the placement below it: the cutoff is 2
C26_Witness ==
    /\ lastExec.kind = "run"
    /\ lastExec.gateArray = gates
    /\ lastExec.threw = "none"
    /\ gates = <<Placement(0, 1, "H")>>
    /\ lastExec.applied = gates
    /\ quantumState = RunExecution(numQubits, gates).state
    /\ quantumState # QuantumState(numQubits, <<>>)

\* ---- C27
\* In every reachable state 0 <= currentStep <= max(largest step of the
\* circuit, 0) + 1; handleStepForward at that upper bound and
\* handleStepBack at 0 change nothing.
StepCeiling(gs) ==
    LET steps == {gs[i].step : i \in DOMAIN gs} \cup {0}
    IN  (CHOOSE m \in steps : \A x \in steps : x <= m) + 1
C27_StepInRange ==
    [][/\ currentStep \in 0..StepCeiling(gates)
       /\ currentStep' \in 0..StepCeiling(gates')
       /\ (currentStep = StepCeiling(gates) /\ handleStepForward) => UNCHANGED vars
       /\ (currentStep = 0 /\ handleStepBack) => UNCHANGED vars]_vars
\* the end of a circuit whose largest step is 2, in step mode, where the
\* step-forward handler has nothing left to do
C27_Witness ==
    /\ isStepMode
    /\ \E i \in DOMAIN gates : gates[i].step = 2
    /\ currentStep = 3
    /\ lastExec.kind = "step" /\ lastExec.step = 3 /\ lastExec.gateArray = gates

\* ---- C28
\* Each expiry of the auto-play timer advances currentStep by exactly one
\* and stops playback exactly when the step reached is max(largest step,
\* 0) + 1; playback that has been started eventually stops; and the timer
\* never advances a step in a state in which playback has been stopped by
\* a pause, a stop, a reset or a change of the circuit.
C28_AutoPlayTerminates ==
    /\ [][AutoPlayTimer =>
              /\ isPlaying
              /\ currentStep' = currentStep + 1
              /\ isPlaying' <=> currentStep' < StepCeiling(gates')
              /\ gates' = gates]_vars
    /\ [][TimerExpiry => AutoPlayTimer]_vars
    /\ [][(\/ handleStepPause
           \/ handleStepStop
           \/ handleStepReset
           \/ gates' # gates) => ~isPlaying']_vars
    /\ [][~isPlaying => currentStep' <= currentStep]_vars
    /\ isPlaying ~> (~isPlaying)
\* playback of a circuit whose largest step is 2 has run to the end by
\* itself: nothing but the timer advances the step in this specification
C28_Witness ==
    /\ \E i \in DOMAIN gates : gates[i].step = 2
    /\ currentStep = 3
    /\ ~isPlaying
    /\ lastExec.kind = "step" /\ lastExec.step = 3

\* ---- C29
\* Every accepted placement and every removal is followed by
\* currentStep = 0, isPlaying = false and a stepped state that is an
\* all-zero state (amplitude 1 at index 0, 0 elsewhere), whatever the step
\* position and the playback status were before.
IsAllZero(qs) ==
    /\ DOMAIN qs.amplitudes = 0..(2 ^ qs.numQubits - 1)
    /\ \A s \in DOMAIN qs.amplitudes : qs.amplitudes[s] = C(IF s = 0 THEN 1 ELSE 0, 0)
C30_ViewsMatchQubitCount ==
    /\ Len(blochVectors) = numQubits
    /\ Len(steppedBlochVectors) = numQubits
    /\ Len(densityMatrices) \in {0, numQubits}
    /\ Len(steppedDensityMatrices) \in {0, numQubits}

====
